---- MODULE Spec2Model ----
(***************************************************************************)
(* make_image_grid.py: main() builds the output path, create_image_grid()  *)
(* lists and filters a directory, sizes a canvas from the first image and  *)
(* pastes every image into its cell; main() saves the canvas and prints.   *)
(* File names and paths are sequences of one-character strings, so that    *)
(* lower(), endswith() and the substring test are computed, not assumed.   *)
(***************************************************************************)
EXTENDS Integers, Sequences, FiniteSets, TLC

\* ---------------------------------------------------------------- bounds
MaxFiles == 3        \* entries of the directory, one invocation
MaxRunFiles == 2     \* entries of the directory before the first of many invocations
MaxCols == 2         \* largest explicit -c value besides the default

\* ------------------------------------------------------- program constants
DefaultCols == 4

\* ------------------------------------------------------------ file names
N_IMG1 == <<"I","M","G","1",".","P","N","G">>
N_a == <<"a",".","j","p","g">>
N_b == <<"b",".","j","p","e","g">>
N_c == <<"c",".","b","m","p">>
N_d == <<"d",".","g","i","f">>
N_MyGrid == <<"M","y","_","G","r","i","d",".","p","n","g">>
N_xpng == <<"x","p","n","g">>
P_run1 == <<"r","u","n","1">>
P_up == <<".",".","/","x">>
InputDir == <<"d","i","r">>
Sep == "/"

\* A directory entry: its name and what Image.open finds in it.
File(n, k, w, h) == [name |-> n, kind |-> k, w |-> w, h |-> h]

Universe ==
  { File(N_IMG1, "img", 100, 100), File(N_a, "img", 100, 100),
    File(N_d, "img", 100, 100), File(N_b, "img", 50, 80),
    File(N_c, "bad", 0, 0), File(N_MyGrid, "img", 30, 30),
    File(N_xpng, "img", 100, 100) }

\* the files a directory run on repeatedly is drawn from
RunUniverse ==
  { f \in Universe : f.name \in {N_IMG1, N_a, N_b, N_c, N_MyGrid} }

Prefixes ==
  { [given |-> FALSE, val |-> <<>>], [given |-> TRUE, val |-> <<>>],
    [given |-> TRUE, val |-> P_run1], [given |-> TRUE, val |-> P_up] }

ColsArgs == {-1, 0} \cup (1..MaxCols) \cup {DefaultCols}

\* ------------------------------------------------------- string functions
UpperCase == <<"A","B","C","D","E","F","G","H","I","J","K","L","M",
               "N","O","P","Q","R","S","T","U","V","W","X","Y","Z">>
LowerCase == <<"a","b","c","d","e","f","g","h","i","j","k","l","m",
               "n","o","p","q","r","s","t","u","v","w","x","y","z">>

\* the lower-case form of each upper-case letter
LowerTable ==
  [c \in {UpperCase[i] : i \in 1..Len(UpperCase)} |->
     LowerCase[CHOOSE i \in 1..Len(UpperCase) : UpperCase[i] = c]]

LowerChar(c) == IF c \in DOMAIN LowerTable THEN LowerTable[c] ELSE c

\* str.lower()
Lower(s) == [i \in 1..Len(s) |-> LowerChar(s[i])]

\* str.endswith(suffix)
EndsWith(s, suf) ==
  /\ Len(suf) <= Len(s)
  /\ SubSeq(s, Len(s) - Len(suf) + 1, Len(s)) = suf

\* sub in s
Contains(s, sub) ==
  \E i \in 1..(Len(s) - Len(sub) + 1) : SubSeq(s, i, i + Len(sub) - 1) = sub

Extensions ==
  { <<".","p","n","g">>, <<".","j","p","g">>, <<".","j","p","e","g">>,
    <<".","b","m","p">>, <<".","g","i","f">> }
GridWord == <<"g","r","i","d">>

\* mutant: the 'grid' test on the name as spelled, not lower-cased
IsEligibleCaseSensitive(f) ==
  /\ \E e \in Extensions : EndsWith(Lower(f), e)
  /\ ~Contains(f, GridWord)

\* mutant: no 'grid' exclusion at all
IsEligibleNoExclusion(f) ==
  \E e \in Extensions : EndsWith(Lower(f), e)

\* the filter of the list comprehension
IsEligible(f) ==
  /\ \E e \in Extensions : EndsWith(Lower(f), e)
  /\ ~Contains(Lower(f), GridWord)

RECURSIVE Filter(_)
Filter(names) ==
  IF names = <<>> THEN <<>>
  ELSE IF IsEligible(Head(names))
       THEN <<Head(names)>> \o Filter(Tail(names))
       ELSE Filter(Tail(names))

\* os.listdir: the entries' names in the directory's own order
ListDir(d) == [i \in 1..Len(d) |-> d[i].name]

\* os.path.join(a, b) (posix): an absolute b replaces a
OsPathJoin(a, b) ==
  IF b # <<>> /\ b[1] = Sep THEN b
  ELSE IF a # <<>> /\ a[Len(a)] = Sep THEN a \o b
  ELSE a \o <<Sep>> \o b

\* ---------------------------------------------------------- arithmetic
\* mutant: floor instead of ceiling
RowsFloor(n, c) == n \div c

\* math.ceil(num_images / cols), cols # 0
Rows(n, c) ==
  IF c > 0 THEN (n + c - 1) \div c ELSE -(n \div (-c))

\* mutant: the canvas is one tile wide
GridWidthOneTile(w, c) == w

\* grid_width = img_width * cols
GridWidth(w, c) == w * c
\* grid_height = img_height * rows
GridHeight(h, r) == h * r

\* mutant: row and column exchanged
PasteXByRow(i, c, w) == (i \div c) * w

\* col = idx % cols; x = col * img_width
PasteX(i, c, w) == (i % c) * w

\* mutant: the column where the row belongs
PasteYByCol(i, c, h) == (i % c) * h

\* row = idx // cols; y = row * img_height
PasteY(i, c, h) == (i \div c) * h

\* ------------------------------------------------------------ main()
GridJpg == <<"g","r","i","d",".","j","p","g">>

\* mutant: an output name without the word 'grid'
OutputFilenamePlain(p) ==
  IF p.given /\ p.val # <<>> THEN p.val \o <<".","j","p","g">>
  ELSE <<"o","u","t",".","j","p","g">>

\* 'grid.jpg', with the prefix and '_' before it when args.prefix is truthy
OutputFilename(p) ==
  IF p.given /\ p.val # <<>> THEN p.val \o <<"_">> \o GridJpg ELSE GridJpg

\* mutant: a handler for ValueError only
CatchesValueErrorOnly(t) == t = "ValueError"

\* except Exception
Catches(t) ==
  t \in {"ValueError", "FileNotFoundError", "OSError", "ZeroDivisionError",
         "IndexError", "UnidentifiedImageError"}

\* an exception: its class, its message and the statement that raised it
NoExc == [type |-> "None", msg |-> "", at |-> "none"]
Exc(t, m, a) == [type |-> t, msg |-> m, at |-> a]
NoImagesMsg == "No valid image files found in directory"

VARIABLES
  pc,           \* the statement main() or create_image_grid() is about to run
  dir,          \* the input directory: its entries in listing order
  dir_exists,   \* whether the input directory exists
  cols, prefix, \* args.cols, args.prefix
  output_path,  \* main's output_path
  image_files,  \* create_image_grid's image_files
  img_size,     \* <<img_width, img_height>>, <<>> before the first open
  rows,         \* create_image_grid's rows
  canvas,       \* <<grid_width, grid_height>> of grid_image, <<>> before Image.new
  idx,          \* the loop index
  pasted,       \* the paste calls made on grid_image, in order
  opens,        \* the names passed to Image.open, in order
  grid,         \* main's grid, <<>> until create_image_grid returns
  exc,          \* the exception in flight
  out,          \* the lines printed
  saved_to,     \* the path this run's save wrote to, <<>> if none
  exit_code,    \* the process's exit status once pc = "exit"
  dir_before,   \* history: the directory when this process started
  dir_first     \* history: the directory before the first process

vars == <<pc, dir, dir_exists, cols, prefix, output_path, image_files,
          img_size, rows, canvas, idx, pasted, opens, grid, exc, out,
          saved_to, exit_code, dir_before, dir_first>>

args == <<cols, prefix>>
fs == <<dir, dir_exists, dir_before, dir_first>>
locals == <<image_files, img_size, rows, canvas, idx, pasted, opens>>

RECURSIVE SeqsOf(_, _)
\* the sequences of distinct elements of S of length at most n
SeqsOf(S, n) ==
  IF n = 0 THEN {<<>>}
  ELSE LET shorter == SeqsOf(S, n - 1) IN
       shorter \cup
       UNION { { Append(s, x) : x \in S \ {s[i] : i \in 1..Len(s)} } :
               s \in shorter }

\* the state of a process that has parsed its arguments
Fresh ==
  /\ pc = "path"
  /\ output_path = <<>>
  /\ image_files = <<>>
  /\ img_size = <<>>
  /\ rows = 0
  /\ canvas = <<>>
  /\ idx = 0
  /\ pasted = <<>>
  /\ opens = <<>>
  /\ grid = <<>>
  /\ exc = NoExc
  /\ out = <<>>
  /\ saved_to = <<>>
  /\ exit_code = 0

\* the same, of the next process
FreshNext ==
  /\ pc' = "path"
  /\ output_path' = <<>>
  /\ image_files' = <<>>
  /\ img_size' = <<>>
  /\ rows' = 0
  /\ canvas' = <<>>
  /\ idx' = 0
  /\ pasted' = <<>>
  /\ opens' = <<>>
  /\ grid' = <<>>
  /\ exc' = NoExc
  /\ out' = <<>>
  /\ saved_to' = <<>>
  /\ exit_code' = 0

InitWith(U, n) ==
  /\ dir_exists \in BOOLEAN
  /\ dir \in (IF dir_exists THEN SeqsOf(U, n) ELSE {<<>>})
  /\ dir_before = dir
  /\ dir_first = dir
  /\ cols \in ColsArgs
  /\ prefix \in Prefixes
  /\ Fresh

Init == InitWith(Universe, MaxFiles)
InitRuns == InitWith(RunUniverse, MaxRunFiles)

Lookup(d, n) == d[CHOOSE i \in 1..Len(d) : d[i].name = n]
HasEntry(d, n) == \E i \in 1..Len(d) : d[i].name = n

\* lines 79-84
BuildPath ==
  /\ pc = "path"
  /\ output_path' = OsPathJoin(InputDir, OutputFilename(prefix))
  /\ pc' = "listdir"
  /\ UNCHANGED <<fs, args, locals, grid, exc, out, saved_to, exit_code>>

Raise(t, m) ==
  /\ exc' = Exc(t, m, pc)
  /\ pc' = "except"

\* lines 30-34
ListAndFilter ==
  /\ pc = "listdir"
  /\ IF dir_exists
     THEN /\ image_files' = Filter(ListDir(dir))
          /\ pc' = "check"
          /\ UNCHANGED exc
     ELSE /\ Raise("FileNotFoundError", "No such file or directory")
          /\ UNCHANGED image_files
  /\ UNCHANGED <<fs, args, output_path, img_size, rows, canvas, idx, pasted,
                 opens, grid, out, saved_to, exit_code>>

\* mutant: the guard never fires
IsEmptyNever(l) == FALSE

\* not image_files
IsEmpty(l) == l = <<>>

\* lines 36-37
CheckEmpty ==
  /\ pc = "check"
  /\ IF IsEmpty(image_files)
     THEN Raise("ValueError", NoImagesMsg)
     ELSE pc' = "open_first" /\ UNCHANGED exc
  /\ UNCHANGED <<fs, args, output_path, locals, grid, out, saved_to, exit_code>>

\* lines 40-41
OpenFirst ==
  /\ pc = "open_first"
  /\ IF image_files = <<>>
     THEN /\ Raise("IndexError", "list index out of range")
          /\ UNCHANGED <<opens, img_size>>
     ELSE LET f == Lookup(dir, image_files[1]) IN
          /\ opens' = Append(opens, f.name)
          /\ IF f.kind = "img"
             THEN /\ img_size' = <<f.w, f.h>>
                  /\ pc' = "rows"
                  /\ UNCHANGED exc
             ELSE /\ Raise("UnidentifiedImageError", "cannot identify image file")
                  /\ UNCHANGED img_size
  /\ UNCHANGED <<fs, args, output_path, image_files, rows, canvas, idx, pasted,
                 grid, out, saved_to, exit_code>>

\* lines 44-45
ComputeRows ==
  /\ pc = "rows"
  /\ IF cols = 0
     THEN /\ Raise("ZeroDivisionError", "division by zero")
          /\ UNCHANGED rows
     ELSE /\ rows' = Rows(Len(image_files), cols)
          /\ pc' = "new_canvas"
          /\ UNCHANGED exc
  /\ UNCHANGED <<fs, args, output_path, image_files, img_size, canvas, idx,
                 pasted, opens, grid, out, saved_to, exit_code>>

\* lines 48-50
NewCanvas ==
  /\ pc = "new_canvas"
  /\ LET grid_width == GridWidth(img_size[1], cols)
         grid_height == GridHeight(img_size[2], rows)
     IN IF grid_width < 0 \/ grid_height < 0
        THEN /\ Raise("ValueError", "Width and height must be >= 0")
             /\ UNCHANGED <<canvas, idx>>
        ELSE /\ canvas' = <<grid_width, grid_height>>
             /\ idx' = 0
             /\ pc' = "loop"
             /\ UNCHANGED exc
  /\ UNCHANGED <<fs, args, output_path, image_files, img_size, rows, pasted,
                 opens, grid, out, saved_to, exit_code>>

\* lines 53-63, one iteration
PasteOne ==
  /\ pc = "loop"
  /\ idx < Len(image_files)
  /\ LET f == Lookup(dir, image_files[idx + 1]) IN
     /\ opens' = Append(opens, f.name)
     /\ IF f.kind = "img"
        THEN /\ pasted' = Append(pasted,
                    [idx |-> idx, name |-> f.name,
                     x |-> PasteX(idx, cols, img_size[1]),
                     y |-> PasteY(idx, cols, img_size[2]),
                     w |-> f.w, h |-> f.h])
             /\ idx' = idx + 1
             /\ UNCHANGED <<exc, pc>>
        ELSE /\ Raise("UnidentifiedImageError", "cannot identify image file")
             /\ UNCHANGED <<pasted, idx>>
  /\ UNCHANGED <<fs, args, output_path, image_files, img_size, rows, canvas,
                 grid, out, saved_to, exit_code>>

\* line 65 and the assignment of line 86
ReturnGrid ==
  /\ pc = "loop"
  /\ idx >= Len(image_files)
  /\ grid' = canvas
  /\ pc' = "save"
  /\ UNCHANGED <<fs, args, output_path, locals, exc, out, saved_to, exit_code>>

\* whether path p names an entry directly inside InputDir, and which
EntryPrefix == InputDir \o <<Sep>>
IsDirectEntry(p) ==
  /\ Len(p) > Len(EntryPrefix)
  /\ SubSeq(p, 1, Len(EntryPrefix)) = EntryPrefix
  /\ ~Contains(SubSeq(p, Len(EntryPrefix) + 1, Len(p)), <<Sep>>)
EntryName(p) == SubSeq(p, Len(EntryPrefix) + 1, Len(p))

\* the directory after a file f is written under its name: replaced in
\* place when the name exists, a new entry at either end otherwise
WriteEntry(d, f) ==
  IF HasEntry(d, f.name)
  THEN {[i \in 1..Len(d) |-> IF d[i].name = f.name THEN f ELSE d[i]]}
  ELSE {Append(d, f), <<f>> \o d}

\* line 87, the save succeeding
SaveOk ==
  /\ pc = "save"
  /\ saved_to' = output_path
  /\ IF IsDirectEntry(output_path)
     THEN dir' \in WriteEntry(dir, File(EntryName(output_path), "img", grid[1], grid[2]))
     ELSE UNCHANGED dir
  /\ pc' = "print"
  /\ UNCHANGED <<dir_exists, dir_before, dir_first, args, output_path, locals,
                 grid, exc, out, exit_code>>

\* line 87, the save raising: nothing written, or a truncated file left
SaveFail ==
  /\ pc = "save"
  /\ Raise("OSError", "cannot write file")
  /\ \/ UNCHANGED <<dir, saved_to>>
     \/ /\ IsDirectEntry(output_path)
        /\ saved_to' = output_path
        /\ dir' \in WriteEntry(dir, File(EntryName(output_path), "bad", 0, 0))
  /\ UNCHANGED <<dir_exists, dir_before, dir_first, args, output_path, locals,
                 grid, out, exit_code>>

\* line 88
PrintSaved ==
  /\ pc = "print"
  /\ out' = Append(out, [kind |-> "saved", text |-> output_path])
  /\ pc' = "exit"
  /\ exit_code' = 0
  /\ UNCHANGED <<fs, args, output_path, locals, grid, exc, saved_to>>

\* lines 89-90, or the exception leaving main uncaught
Except ==
  /\ pc = "except"
  /\ IF Catches(exc.type)
     THEN /\ out' = Append(out, [kind |-> "error", text |-> exc.msg])
          /\ exit_code' = 0
     ELSE /\ exit_code' = 1
          /\ UNCHANGED out
  /\ pc' = "exit"
  /\ UNCHANGED <<fs, args, output_path, locals, grid, exc, saved_to>>

\* the tool run again on the same directory with the same columns
Rerun ==
  /\ pc = "exit"
  /\ prefix' \in Prefixes
  /\ FreshNext
  /\ dir_before' = dir
  /\ UNCHANGED <<dir, dir_exists, dir_first, cols>>

Next ==
  \/ BuildPath
  \/ ListAndFilter
  \/ CheckEmpty
  \/ OpenFirst
  \/ ComputeRows
  \/ NewCanvas
  \/ PasteOne
  \/ ReturnGrid
  \/ SaveOk
  \/ SaveFail
  \/ PrintSaved
  \/ Except

NextRuns ==
  \/ Next
  \/ Rerun

\* one invocation of the tool
Spec == Init /\ [][Next]_vars

\* any number of invocations on the same directory
SpecRuns == InitRuns /\ [][NextRuns]_vars

\* ------------------------------------------------------------ claims
\* The eligibility rule restated without the filter's operators: the name's
\* last four or five characters, lower-cased, spell a listed extension, and
\* no four consecutive characters, lower-cased, spell "grid".
RuleExts ==
  { <<".","p","n","g">>, <<".","j","p","g">>, <<".","j","p","e","g">>,
    <<".","b","m","p">>, <<".","g","i","f">> }
HasImageExt(f) ==
  \E k \in {4, 5} :
    /\ Len(f) >= k
    /\ [i \in 1..k |-> LowerChar(f[Len(f) - k + i])] \in RuleExts
NameHasGrid(f) ==
  \E i \in 1..(Len(f) - 3) :
    /\ LowerChar(f[i]) = "g"
    /\ LowerChar(f[i + 1]) = "r"
    /\ LowerChar(f[i + 2]) = "i"
    /\ LowerChar(f[i + 3]) = "d"
EligibleByRule(f) == HasImageExt(f) /\ ~NameHasGrid(f)
EligibleIdx(d) == {i \in 1..Len(d) : EligibleByRule(d[i].name)}
FirstEligible(d) ==
  d[CHOOSE i \in EligibleIdx(d) : \A j \in EligibleIdx(d) : i <= j]
Listed == pc \notin {"path", "listdir"} /\ exc.at # "listdir"
Returned == grid # <<>>
InList(l, x) == \E i \in 1..Len(l) : l[i] = x

\* C1: with n >= 1 eligible images and c >= 1 columns, the canvas that
\* create_image_grid returns is tileWidth * c wide and tileHeight * ceil(n / c)
\* high, the tile being the first eligible image of the listing.
C1_CanvasSize ==
  (Returned /\ cols >= 1) =>
    LET n == Cardinality(EligibleIdx(dir_before))
        t == FirstEligible(dir_before)
    IN /\ n >= 1
       /\ grid[1] = t.w * cols
       /\ \E r \in 1..n :
            /\ (r - 1) * cols < n
            /\ n <= r * cols
            /\ grid[2] = t.h * r

C1_Witness ==
  /\ Returned
  /\ Len(image_files) = 3
  /\ cols = 2
  /\ grid = <<200, 200>>

\* C2: when create_image_grid returns, the pastes made are exactly one per
\* list index, in increasing index order, image i at
\* ((i % c) * tileWidth, (i div c) * tileHeight).
C2_PasteOffsets ==
  /\ (pc = "loop" /\ cols >= 1) => Len(pasted) = idx
  /\ (Returned /\ cols >= 1) =>
       LET t == FirstEligible(dir_before) IN
       /\ Len(pasted) = Len(image_files)
       /\ \A k \in 1..Len(pasted) :
            /\ pasted[k].idx = k - 1
            /\ pasted[k].name = image_files[k]
            /\ pasted[k].x = ((k - 1) % cols) * t.w
            /\ pasted[k].y = ((k - 1) \div cols) * t.h

C2_Witness ==
  /\ Returned
  /\ cols = 2
  /\ Len(pasted) = 3
  /\ pasted[2].x = 100 /\ pasted[2].y = 0
  /\ pasted[3].x = 0 /\ pasted[3].y = 100

\* C3: a listed name is selected exactly when its lower-cased form ends with
\* .png, .jpg, .jpeg, .bmp or .gif and does not contain 'grid'; IMG1.PNG is
\* selected, My_Grid.png is not, and the image opened for the tile size is
\* never a 'grid' file, also when such a file heads the listing.
C3_Eligibility ==
  Listed =>
    /\ \A i \in 1..Len(dir_before) :
         InList(image_files, dir_before[i].name)
           <=> EligibleByRule(dir_before[i].name)
    /\ \A k \in 1..Len(image_files) : HasEntry(dir_before, image_files[k])
    /\ HasEntry(dir_before, N_IMG1) => InList(image_files, N_IMG1)
    /\ ~InList(image_files, N_MyGrid)
    /\ \A k \in 1..Len(opens) : ~NameHasGrid(opens[k])
    /\ img_size # <<>> =>
         /\ opens[1] = FirstEligible(dir_before).name
         /\ img_size = <<FirstEligible(dir_before).w, FirstEligible(dir_before).h>>

C3_Witness ==
  /\ pc = "rows"
  /\ Len(dir_before) = 3
  /\ dir_before[1].name = N_MyGrid
  /\ dir_before[2].name = N_xpng
  /\ image_files = <<N_IMG1>>
  /\ img_size = <<100, 100>>

\* C4: with no eligible file in an existing directory, create_image_grid
\* raises the empty-input error having opened no image and allocated no
\* canvas, and the run writes nothing: the directory is as it was.
C4_EmptyInput ==
  (Listed /\ dir_exists /\ EligibleIdx(dir_before) = {}) =>
    /\ opens = <<>>
    /\ canvas = <<>>
    /\ grid = <<>>
    /\ saved_to = <<>>
    /\ dir = dir_before
    /\ pc \in {"check", "except", "exit"}
    /\ pc # "check" => exc = Exc("ValueError", NoImagesMsg, "check")
    /\ pc = "exit" => out = <<[kind |-> "error", text |-> NoImagesMsg]>>

C4_Witness ==
  /\ pc = "exit"
  /\ dir_exists
  /\ Len(dir_before) = 2
  /\ EligibleIdx(dir_before) = {}
  /\ exc.msg = NoImagesMsg

\* C6: an error raised inside main's try block is caught: the process prints
\* 'Error: <message>', exits with status 0 and does not print the success
\* line; raised before the save, it leaves the directory as it was.
C6_ErrorsCaught ==
  /\ pc = "except" => exc # NoExc
  /\ (pc = "exit" /\ exc # NoExc) =>
       /\ exit_code = 0
       /\ out = <<[kind |-> "error", text |-> exc.msg]>>
       /\ exc.at # "save" => (dir = dir_before /\ saved_to = <<>>)
  /\ (pc = "exit" /\ exc = NoExc) =>
       /\ exit_code = 0
       /\ out = <<[kind |-> "saved", text |-> output_path]>>

C6_Witness ==
  /\ pc = "exit"
  /\ exc.type = "UnidentifiedImageError"
  /\ exc.at = "loop"
  /\ Len(pasted) = 2
  /\ out = <<[kind |-> "error", text |-> exc.msg]>>

\* C7: the file saved is an entry of the scanned directory, named
\* <prefix>_grid.jpg when a prefix is supplied and grid.jpg when it is not.
C7_OutputName ==
  saved_to # <<>> =>
    LET want == IF prefix.given THEN prefix.val \o <<"_">> \o GridJpg
                ELSE GridJpg
    IN /\ saved_to = InputDir \o <<Sep>> \o want
       /\ IsDirectEntry(saved_to)
       /\ HasEntry(dir, want)

\* C8 as stated: one eligible image and the default four columns give a
\* canvas of that image's own dimensions.
C8_OwnDimensions ==
  (Returned /\ cols = DefaultCols /\ Len(image_files) = 1) =>
    LET f == Lookup(dir_before, image_files[1]) IN grid = <<f.w, f.h>>

\* C8 amended: one eligible image and the default four columns give a canvas
\* four times the image's width and of the image's height, one row.
C8_FourTilesWide ==
  (Returned /\ cols = DefaultCols /\ Len(image_files) = 1) =>
    LET f == Lookup(dir_before, image_files[1]) IN
    /\ rows = 1
    /\ grid = <<DefaultCols * f.w, f.h>>

C8_Witness ==
  /\ Returned
  /\ cols = DefaultCols
  /\ Len(image_files) = 1
  /\ grid = <<400, 100>>

SameSize ==
  \A k \in 1..Len(image_files) :
    LET f == Lookup(dir_before, image_files[k]) IN
    f.kind = "img" => <<f.w, f.h>> = img_size

Disjoint(p, q) ==
  \/ p.x + p.w <= q.x
  \/ q.x + q.w <= p.x
  \/ p.y + p.h <= q.y
  \/ q.y + q.h <= p.y

\* C10: with c >= 1 and images that all have the tile size, after every
\* iteration of the paste loop every pasted rectangle lies inside the canvas
\* and the rectangles of two different indices do not overlap.
C10_TilesInsideAndApart ==
  (canvas # <<>> /\ cols >= 1 /\ SameSize) =>
    /\ \A k \in 1..Len(pasted) :
         /\ pasted[k].x >= 0 /\ pasted[k].y >= 0
         /\ pasted[k].x + img_size[1] <= canvas[1]
         /\ pasted[k].y + img_size[2] <= canvas[2]
    /\ \A k, m \in 1..Len(pasted) : k # m => Disjoint(pasted[k], pasted[m])

C10_Witness ==
  /\ pc = "loop"
  /\ cols = 2
  /\ SameSize
  /\ Len(pasted) = 3
  /\ canvas = <<200, 200>>

\* the names the runs so far have added to the directory
Added == {dir[i].name : i \in 1..Len(dir)} \ {dir_first[i].name : i \in 1..Len(dir_first)}

\* C5: however often the tool has run on the directory, and with whatever
\* prefixes, the list a run selects holds no file a run has written, and is
\* the list, and gives the canvas, of the first run.
C5_RerunExcludesOutputs ==
  Listed =>
    /\ \A k \in 1..Len(image_files) : image_files[k] \notin Added
    /\ \A k \in 1..Len(image_files) : ~EndsWith(image_files[k], <<"_">> \o GridJpg)
    /\ ~InList(image_files, GridJpg)
    /\ image_files =
         [k \in 1..Cardinality(EligibleIdx(dir_first)) |->
            dir_first[CHOOSE i \in EligibleIdx(dir_first) :
               Cardinality({j \in EligibleIdx(dir_first) : j < i}) = k - 1].name]
    /\ (canvas # <<>> /\ cols >= 1) =>
         /\ canvas[1] = FirstEligible(dir_first).w * cols
         /\ \E r \in 1..Len(image_files) :
              /\ (r - 1) * cols < Len(image_files)
              /\ Len(image_files) <= r * cols
              /\ canvas[2] = FirstEligible(dir_first).h * r

C5_Witness ==
  /\ pc = "save"
  /\ dir_before # dir_first
  /\ dir_before[1].name = GridJpg
  /\ dir_before[1].kind = "img"
  /\ HasEntry(dir_before, P_run1 \o <<"_">> \o GridJpg)
  /\ Len(image_files) = 2

\* C9: create_image_grid writes nothing; over a run no selected input file is
\* changed or removed; the one file a run writes is its output path, which is
\* not in the run's selected list.
C9_InputsUntouched ==
  /\ pc \in {"path", "listdir", "check", "open_first", "rows", "new_canvas",
             "loop", "save"} => (dir = dir_before /\ saved_to = <<>>)
  /\ exc.at \notin {"none", "save"} => (dir = dir_before /\ saved_to = <<>>)
  /\ Listed =>
       /\ \A k \in 1..Len(image_files) :
            /\ HasEntry(dir, image_files[k])
            /\ Lookup(dir, image_files[k]) = Lookup(dir_before, image_files[k])
       /\ \A i \in 1..Len(dir_before) :
            (~HasEntry(dir, dir_before[i].name)
               \/ Lookup(dir, dir_before[i].name) # dir_before[i])
              => (saved_to = output_path
                    /\ output_path = InputDir \o <<Sep>> \o dir_before[i].name)
       /\ \A i \in 1..Len(dir) :
            ~HasEntry(dir_before, dir[i].name)
              => (saved_to = output_path
                    /\ output_path = InputDir \o <<Sep>> \o dir[i].name)
       /\ saved_to \in {<<>>, output_path}
       /\ \A k \in 1..Len(image_files) :
            output_path # InputDir \o <<Sep>> \o image_files[k]

C9_Witness ==
  /\ pc = "print"
  /\ Len(image_files) = 2
  /\ HasEntry(dir_before, GridJpg)
  /\ Lookup(dir_before, GridJpg).kind = "bad"
  /\ Lookup(dir, GridJpg).kind = "img"
  /\ saved_to = InputDir \o <<Sep>> \o GridJpg

TypeOK ==
  /\ pc \in {"path", "listdir", "check", "open_first", "rows", "new_canvas",
             "loop", "save", "print", "except", "exit"}
  /\ cols \in ColsArgs
  /\ prefix \in Prefixes
====
